---- MODULE Spec2Model ----
(***************************************************************************)
(* A model of the code-conversion utilities of src/src/utils/codeConverter *)
(* (convertCode, runTestCases, detectLanguage) as a state machine over     *)
(* calls in flight.  Text is a TLA+ string, one character per position,    *)
(* and every regular expression of the source is written out as a pattern  *)
(* value that a backtracking matcher interprets the way the JavaScript     *)
(* engine does (leftmost match, greedy/lazy priority, capture groups).     *)
(***************************************************************************)
EXTENDS Integers, Sequences, FiniteSets, TLC

VARIABLES code, testCases, calls, detected, app, now

vars == <<code, testCases, calls, detected, app, now>>

-----------------------------------------------------------------------------
(* Strings                                                                 *)

CharAt(s, i) == SubSeq(s, i, i)

StartsWithAt(s, i, lit) ==
    /\ i >= 1
    /\ i + Len(lit) - 1 <= Len(s)
    /\ SubSeq(s, i, i + Len(lit) - 1) = lit

MinOf(S) == CHOOSE x \in S : \A y \in S : x <= y
MaxOf(S) == CHOOSE x \in S : \A y \in S : y <= x

\* String.prototype.indexOf(lit, from-1) + 1 ; 0 when there is no occurrence.
IndexFrom(s, lit, from) ==
    LET hits == { i \in from..(Len(s) - Len(lit) + 1) :
                    SubSeq(s, i, i + Len(lit) - 1) = lit }
    IN  IF hits = {} THEN 0 ELSE MinOf(hits)

\* String.prototype.includes
Includes(s, lit) == IndexFrom(s, lit, 1) # 0

\* String.prototype.startsWith
StartsWith(s, lit) == StartsWithAt(s, 1, lit)

\* String.prototype.replace with a string pattern: the first occurrence only.
\* The replacement strings the source passes hold no $-pattern that a string
\* pattern (which has no capture groups) would expand.
ReplaceFirstStr(s, lit, new) ==
    LET i == IndexFrom(s, lit, 1)
    IN  IF i = 0 THEN s
        ELSE SubSeq(s, 1, i - 1) \o new \o SubSeq(s, i + Len(lit), Len(s))

RECURSIVE Repeat(_, _)
\* String.prototype.repeat
Repeat(s, n) == IF n <= 0 THEN "" ELSE s \o Repeat(s, n - 1)

-----------------------------------------------------------------------------
(* Character classes of the regular expressions                            *)

WordAlphabet == "abcdefghijklmnopqrstuvwxyzABCDEFGHIJKLMNOPQRSTUVWXYZ0123456789_"
WordChars == { CharAt(WordAlphabet, i) : i \in 1..Len(WordAlphabet) }
DigitChars == { "0", "1", "2", "3", "4", "5", "6", "7", "8", "9" }
SpaceChars == { " ", "\n", "\t", "\r" }
LineEnds == { "\n", "\r" }
\* The backquote cannot be written inside a TLA+ string: the model writes
\* this character, which no pattern or input of the model uses, in its place.
Backtick == "~"

InClass(ch, c) ==
    CASE c = "s" -> ch \in SpaceChars
      [] c = "w" -> ch \in WordChars
      [] c = "d" -> ch \in DigitChars
      [] c = "." -> ch \notin LineEnds
      [] c = "any" -> TRUE
      [] OTHER -> ch # SubSeq(c, 2, 2)      \* a negated class [^x], written "^x"

-----------------------------------------------------------------------------
(* Regular expressions: a pattern is a sequence of items                   *)

Lit(str) == [k |-> "lit", s |-> str]
Star(c) == [k |-> "rep", c |-> c, min |-> 0, greedy |-> TRUE]
Plus(c) == [k |-> "rep", c |-> c, min |-> 1, greedy |-> TRUE]
LazyStar(c) == [k |-> "rep", c |-> c, min |-> 0, greedy |-> FALSE]
Open(n) == [k |-> "open", n |-> n]
Close(n) == [k |-> "close", n |-> n]
Alt(words) == [k |-> "alt", w |-> words]
Opt(sub) == [k |-> "opt", p |-> sub]
Bol == [k |-> "bol"]
EolM == [k |-> "eolm"]
WordB == [k |-> "wb"]

NoCaps == [n \in 1..3 |-> <<0, 0>>]
NoMatch == [ok |-> FALSE]

IsWordAt(s, i) == i >= 1 /\ i <= Len(s) /\ CharAt(s, i) \in WordChars

\* How many characters from position i on are in class c.
RunLen(s, i, c) ==
    LET stops == { j \in i..Len(s) : ~InClass(CharAt(s, j), c) }
    IN  IF stops = {} THEN Len(s) + 1 - i ELSE MinOf(stops) - i

RECURSIVE MatchAt(_, _, _, _)
RECURSIVE TryCounts(_, _, _, _, _, _, _)
RECURSIVE TryWords(_, _, _, _, _, _)

\* The match of pattern p at position i of s that the backtracking engine
\* finds first: [ok, end, caps], end being the position after the match.
MatchAt(p, s, i, caps) ==
    IF p = <<>> THEN [ok |-> TRUE, end |-> i, caps |-> caps]
    ELSE LET it == Head(p)
             rest == Tail(p)
         IN  CASE it.k = "lit" ->
                    IF StartsWithAt(s, i, it.s)
                    THEN MatchAt(rest, s, i + Len(it.s), caps) ELSE NoMatch
               [] it.k = "rep" ->
                    LET run == RunLen(s, i, it.c)
                    IN  IF run < it.min THEN NoMatch
                        ELSE TryCounts(rest, s, i, caps, it.min, run, it.greedy)
               [] it.k = "open" ->
                    MatchAt(rest, s, i, [caps EXCEPT ![it.n] = <<i, 0>>])
               [] it.k = "close" ->
                    MatchAt(rest, s, i, [caps EXCEPT ![it.n] = <<caps[it.n][1], i>>])
               [] it.k = "alt" -> TryWords(rest, s, i, caps, it.w, 1)
               [] it.k = "opt" ->
                    LET m == MatchAt(it.p \o rest, s, i, caps)
                    IN  IF m.ok THEN m ELSE MatchAt(rest, s, i, caps)
               [] it.k = "bol" ->
                    IF i = 1 THEN MatchAt(rest, s, i, caps) ELSE NoMatch
               [] it.k = "eolm" ->
                    IF i = Len(s) + 1 \/ CharAt(s, i) \in LineEnds
                    THEN MatchAt(rest, s, i, caps) ELSE NoMatch
               [] it.k = "wb" ->
                    IF IsWordAt(s, i - 1) # IsWordAt(s, i)
                    THEN MatchAt(rest, s, i, caps) ELSE NoMatch

\* A quantified class followed by rest: of the counts lo..hi with which the
\* rest matches, the backtracking engine finds the largest first when the
\* quantifier is greedy and the smallest when it is lazy.
TryCounts(rest, s, i, caps, lo, hi, greedy) ==
    LET tries == { [n |-> n, m |-> MatchAt(rest, s, i + n, caps)] : n \in lo..hi }
        good == { t \in tries : t.m.ok }
        counts == { t.n : t \in good }
        best == IF greedy THEN MaxOf(counts) ELSE MinOf(counts)
    IN  IF good = {} THEN NoMatch
        ELSE (CHOOSE t \in good : t.n = best).m

\* An alternation of literal words, tried in the order written.
TryWords(rest, s, i, caps, words, j) ==
    IF j > Len(words) THEN NoMatch
    ELSE LET m == IF StartsWithAt(s, i, words[j])
                  THEN MatchAt(rest, s, i + Len(words[j]), caps) ELSE NoMatch
         IN  IF m.ok THEN m ELSE TryWords(rest, s, i, caps, words, j + 1)

\* The positions of s at which pattern p matches.
MatchStarts(p, s) == { i \in 1..(Len(s) + 1) : MatchAt(p, s, i, NoCaps).ok }

\* The match of p that starts at position i of s, as exec reports it: with
\* the position at which it starts.
StartingAt(i, m) == [ok |-> TRUE, start |-> i, end |-> m.end, caps |-> m.caps]

Found(i, p, s) == StartingAt(i, MatchAt(p, s, i, NoCaps))

\* The leftmost match at or after position from, given the positions at
\* which p matches: [ok, start, end, caps].
FindFrom(p, s, from, starts) ==
    LET later == { i \in starts : i >= from }
    IN  IF later = {} THEN NoMatch ELSE Found(MinOf(later), p, s)

\* RegExp.prototype.test (on a regular expression whose lastIndex is 0).
Test(p, s) == MatchStarts(p, s) # {}

\* The text of capture group n of match m ("" when the group took no part).
Group(s, m, n) ==
    IF m.caps[n][1] = 0 \/ m.caps[n][2] = 0 THEN ""
    ELSE SubSeq(s, m.caps[n][1], m.caps[n][2] - 1)

DigitOf(ch) == CASE ch = "1" -> 1 [] ch = "2" -> 2 [] ch = "3" -> 3 [] OTHER -> 0

RECURSIVE Expand(_, _, _, _)
\* GetSubstitution: the replacement template t from position j on, with
\* $1..$3 expanded; any other use of $ stays as written.
Expand(t, j, s, m) ==
    LET d == IndexFrom(t, "$", j)
    IN  IF d = 0 THEN SubSeq(t, j, Len(t))
        ELSE IF d < Len(t) /\ DigitOf(CharAt(t, d + 1)) # 0
             THEN SubSeq(t, j, d - 1) \o Group(s, m, DigitOf(CharAt(t, d + 1)))
                  \o Expand(t, d + 2, s, m)
             ELSE SubSeq(t, j, d) \o Expand(t, d + 1, s, m)

RECURSIVE MatchesFrom(_, _, _, _)
\* The matches a /g regular expression finds from position from on, m being
\* the first: after an empty match the search moves one position on.
NextMatches(m, p, s, starts) ==
    IF ~m.ok THEN <<>>
    ELSE <<m>> \o MatchesFrom(p, s, IF m.end > m.start THEN m.end ELSE m.start + 1,
                              starts)

MatchesFrom(p, s, from, starts) ==
    NextMatches(FindFrom(p, s, from, starts), p, s, starts)

\* The matches String.prototype.replace finds with a /g regular expression,
\* left to right and not overlapping.
Matches(p, s) == MatchesFrom(p, s, 1, MatchStarts(p, s))

RECURSIVE SpliceFrom(_, _, _, _, _)
\* String.prototype.replace, from position from of s on: the text between
\* the matches stays, and texts[k] stands for match ms[k].
SpliceFrom(s, ms, texts, k, from) ==
    IF k > Len(ms) THEN SubSeq(s, from, Len(s))
    ELSE SubSeq(s, from, ms[k].start - 1) \o texts[k]
         \o SpliceFrom(s, ms, texts, k + 1, ms[k].end)

\* The matches ms of s replaced by the expansions of template t.
ReplaceMatches(s, ms, t) ==
    SpliceFrom(s, ms, [k \in 1..Len(ms) |-> Expand(t, 1, s, ms[k])], 1, 1)

\* String.prototype.replace with a /g regular expression and a template.
ReplaceAll(p, s, t) == ReplaceMatches(s, Matches(p, s), t)

RECURSIVE SplitFrom(_, _, _)
SplitFrom(s, sep, from) ==
    LET i == IndexFrom(s, sep, from)
    IN  IF i = 0 THEN <<SubSeq(s, from, Len(s))>>
        ELSE <<SubSeq(s, from, i - 1)>> \o SplitFrom(s, sep, i + Len(sep))

\* String.prototype.split with a non-empty separator
Split(s, sep) == SplitFrom(s, sep, 1)

RECURSIVE Join(_, _)
\* Array.prototype.join
Join(parts, sep) ==
    IF parts = <<>> THEN ""
    ELSE IF Len(parts) = 1 THEN parts[1]
    ELSE parts[1] \o sep \o Join(Tail(parts), sep)

\* The positions of s that hold no white space.
InkAt(s) == { i \in 1..Len(s) : CharAt(s, i) \notin SpaceChars }

\* String.prototype.trim
Trim(s) == IF InkAt(s) = {} THEN "" ELSE SubSeq(s, MinOf(InkAt(s)), MaxOf(InkAt(s)))

-----------------------------------------------------------------------------
(* fixLogicalErrors                                                        *)

\* /n\s*%\s*2\s*!=\s*0/ with the comparison operator op
ParityPattern(op) ==
    <<Lit("n"), Star("s"), Lit("%"), Star("s"), Lit("2"), Star("s"), Lit(op),
      Star("s"), Lit("0")>>

\* The table of { pattern, replacement, comment }, in the order of the source.
errorPatterns ==
    << [pattern |-> ParityPattern("!="),
        replacement |-> "n % 2 == 0",
        comment |-> "Fixed: even numbers have remainder 0"],
       [pattern |-> ParityPattern("!=="),
        replacement |-> "n % 2 === 0",
        comment |-> "Fixed: even numbers have remainder 0"],
       \* /for\s*\(\s*\w+\s*=\s*0;\s*\w+\s*<\s*(\w+)\.length\s*-\s*1/
       [pattern |-> <<Lit("for"), Star("s"), Lit("("), Star("s"), Plus("w"),
                      Star("s"), Lit("="), Star("s"), Lit("0;"), Star("s"),
                      Plus("w"), Star("s"), Lit("<"), Star("s"), Open(1),
                      Plus("w"), Close(1), Lit(".length"), Star("s"), Lit("-"),
                      Star("s"), Lit("1")>>,
        replacement |-> "for (let i = 0; i < $1.length",
        comment |-> "Fixed: off-by-one error"],
       \* /\[\s*(\w+)\.length\s*\]/
       [pattern |-> <<Lit("["), Star("s"), Open(1), Plus("w"), Close(1),
                      Lit(".length"), Star("s"), Lit("]")>>,
        replacement |-> "[$1.length - 1]",
        comment |-> "Fixed: array index out of bounds"],
       \* /&&\s*true/
       [pattern |-> <<Lit("&&"), Star("s"), Lit("true")>>,
        replacement |-> "",
        comment |-> "Simplified: && true is redundant"],
       \* /\|\|\s*false/
       [pattern |-> <<Lit("||"), Star("s"), Lit("false")>>,
        replacement |-> "",
        comment |-> "Simplified: || false is redundant"] >>

\* The second half of the callback: the comment is added after the first
\* occurrence of the replacement text unless the text already holds it.
AddComment(fixedCode, replacement, comment) ==
    IF ~Includes(fixedCode, comment)
    THEN ReplaceFirstStr(fixedCode, replacement, replacement \o "  // " \o comment)
    ELSE fixedCode

\* A faulty variant of ApplyErrorPattern: the callback does not test the
\* pattern first, so the comment is added whether or not the rule matched.
ApplyErrorPatternUntested(fixedCode, rule) ==
    AddComment(ReplaceAll(rule.pattern, fixedCode, rule.replacement),
               rule.replacement, rule.comment)

\* One turn of the forEach callback: the rule applied to the text so far.
ApplyErrorPattern(fixedCode, rule) ==
    IF Test(rule.pattern, fixedCode)
    THEN AddComment(ReplaceAll(rule.pattern, fixedCode, rule.replacement),
                    rule.replacement, rule.comment)
    ELSE fixedCode

RECURSIVE ApplyErrorPatterns(_)
\* errorPatterns.forEach: the values fixedCode takes, the text it starts with
\* and then the text after each turn of the callback.
ApplyErrorPatterns(fixed) ==
    IF Len(fixed) > Len(errorPatterns) THEN fixed
    ELSE ApplyErrorPatterns(
             Append(fixed, ApplyErrorPattern(fixed[Len(fixed)],
                                             errorPatterns[Len(fixed)])))

\* A faulty variant of fixLogicalErrors: the language decides which rules
\* are applied, Python text being given the first rule alone.
fixLogicalErrorsByLanguage(text, language) ==
    IF language = "python" THEN ApplyErrorPattern(text, errorPatterns[1])
    ELSE ApplyErrorPatterns(<<text>>)[Len(errorPatterns) + 1]

fixLogicalErrors(text, language) ==
    ApplyErrorPatterns(<<text>>)[Len(errorPatterns) + 1]

-----------------------------------------------------------------------------
(* Patterns shared by the converters                                       *)

\* /def\s+(\w+)\s*\((.*?)\):/
DefPattern ==
    <<Lit("def"), Plus("s"), Open(1), Plus("w"), Close(1), Star("s"), Lit("("),
      Open(2), LazyStar("."), Close(2), Lit("):")>>

\* /return\s+(.+)/
ReturnPattern == <<Lit("return"), Plus("s"), Open(1), Plus("."), Close(1)>>

\* /return\s+(.+);/
ReturnSemiPattern ==
    <<Lit("return"), Plus("s"), Open(1), Plus("."), Close(1), Lit(";")>>

\* /\bword\b/
WordPattern(word) == <<WordB, Lit(word), WordB>>

\* /print\s*\((.*?)\)/
PrintPattern ==
    <<Lit("print"), Star("s"), Lit("("), Open(1), LazyStar("."), Close(1), Lit(")")>>

\* /(\w+)/
NamePattern == <<Open(1), Plus("w"), Close(1)>>

\* /function\s+(\w+)\s*\((...)\)/ with group 2 any run of characters but ")"
FunctionPattern ==
    <<Lit("function"), Plus("s"), Open(1), Plus("w"), Close(1), Star("s"), Lit("("),
      Open(2), Star("^)"), Close(2), Lit(")")>>

\* /}/
CloseBracePattern == <<Lit("}")>>

\* /;$/m
SemiEolPattern == <<Lit(";"), EolM>>

-----------------------------------------------------------------------------
(* Chains of .replace calls                                                *)

\* .replace(pattern, template)
Rule(pattern, template) ==
    [pattern |-> pattern, kind |-> "template", template |-> template]

\* .replace(pattern, (match, funcName, params) => ...), the function being
\* the one that writes the typed header of the given style
HeaderRule(pattern, style) == [pattern |-> pattern, kind |-> style, template |-> ""]

IsParityName(funcName) == Includes(funcName, "even") \/ Includes(funcName, "odd")

IsSumName(funcName) == Includes(funcName, "add") \/ Includes(funcName, "sum")

\* The replacer of convertPythonToTypeScript (numeric names: add, sum,
\* multiply) and of convertJavaScriptToTypeScript (numeric names: add, sum).
TypeScriptHeader(funcName, params, numeric) ==
    IF IsParityName(funcName)
    THEN "function " \o funcName \o "("
         \o ReplaceAll(NamePattern, params, "$1: number") \o "): boolean"
    ELSE IF numeric
    THEN "function " \o funcName \o "("
         \o ReplaceAll(NamePattern, params, "$1: number") \o "): number"
    ELSE "function " \o funcName \o "("
         \o ReplaceAll(NamePattern, params, "$1: any") \o "): any"

\* The replacer of convertPythonToJava and of convertPythonToCpp: the header
\* with the boolean, the integer or the least specific type.
TypedHeader(funcName, params, lead, boolType, intType, anyType) ==
    IF IsParityName(funcName)
    THEN lead \o boolType \o " " \o funcName \o "("
         \o ReplaceAll(NamePattern, params, "int $1") \o ") {"
    ELSE IF IsSumName(funcName)
    THEN lead \o intType \o " " \o funcName \o "("
         \o ReplaceAll(NamePattern, params, "int $1") \o ") {"
    ELSE lead \o anyType \o " " \o funcName \o "("
         \o ReplaceAll(NamePattern, params, anyType \o " $1") \o ") {"

\* The header a replacer function of the given style returns.
Header(style, funcName, params) ==
    CASE style = "python-typescript" ->
           TypeScriptHeader(funcName, params,
                            IsSumName(funcName) \/ Includes(funcName, "multiply"))
      [] style = "javascript-typescript" ->
           TypeScriptHeader(funcName, params, IsSumName(funcName))
      [] style = "python-java" ->
           TypedHeader(funcName, params, "    public static ", "boolean", "int",
                       "Object")
      [] style = "python-cpp" ->
           TypedHeader(funcName, params, "", "bool", "int", "auto")

\* String.prototype.replace with a function that builds a header out of
\* the name and the parameters each match captured.
ReplaceHeaders(s, ms, style) ==
    SpliceFrom(s, ms,
               [k \in 1..Len(ms) |->
                   Header(style, Group(s, ms[k], 1), Group(s, ms[k], 2))], 1, 1)

\* One .replace call of a chain.
ApplyRule(text, rule) ==
    IF rule.kind = "template" THEN ReplaceAll(rule.pattern, text, rule.template)
    ELSE ReplaceHeaders(text, Matches(rule.pattern, text), rule.kind)

RECURSIVE Rewrites(_, _)
\* The values the rewritten variable takes: the text it starts with, then
\* the text after each .replace call of the chain.
Rewrites(texts, rules) ==
    IF Len(texts) > Len(rules) THEN texts
    ELSE Rewrites(Append(texts, ApplyRule(texts[Len(texts)], rules[Len(texts)])),
                  rules)

\* The text a chain of .replace calls leaves.
ApplyRules(text, rules) == Rewrites(<<text>>, rules)[Len(rules) + 1]

-----------------------------------------------------------------------------
(* convertPythonToJavaScript                                               *)

PythonToJavaScriptRules ==
    << Rule(ParityPattern("!="), "n % 2 === 0"),
       Rule(DefPattern, "function $1($2) {"),
       Rule(ReturnPattern, "  return $1;"),
       Rule(WordPattern("True"), "true"),
       Rule(WordPattern("False"), "false"),
       Rule(WordPattern("None"), "null"),
       Rule(<<Lit("elif")>>, "else if"),
       \* /:\s*$/gm
       Rule(<<Lit(":"), Star("s"), EolM>>, " {"),
       Rule(PrintPattern, "console.log($1)"),
       \* the f-string pattern: f, a quote, then (group 1) non-quotes holding
       \* one braced part, then a quote
       Rule(<<Lit("f\""), Open(1), Star("^\""), Lit("{"), Star("^}"), Lit("}"),
              Star("^\""), Close(1), Lit("\"")>>, Backtick \o "$1" \o Backtick),
       \* /\{(\w+)\}/
       Rule(<<Lit("{"), Open(1), Plus("w"), Close(1), Lit("}")>>, "${$1}") >>

RECURSIVE IndentLines(_, _, _)
\* The for-of loop over the lines: [result, braceCount, indentLevel] after
\* the lines from k on, acc being the three before line k.
IndentLines(lines, k, acc) ==
    IF k > Len(lines) THEN acc
    ELSE LET line == lines[k]
             trimmed == Trim(line)
         IN  IF trimmed = "" THEN IndentLines(lines, k + 1, acc)
             ELSE IF Includes(line, "{")
             THEN IndentLines(lines, k + 1,
                     [result |-> Append(acc.result,
                                        Repeat("  ", acc.indentLevel) \o trimmed),
                      braceCount |-> acc.braceCount + 1,
                      indentLevel |-> acc.indentLevel + 1])
             ELSE IndentLines(lines, k + 1,
                     [acc EXCEPT !.result =
                         Append(acc.result, Repeat("  ", acc.indentLevel) \o trimmed)])

\* A faulty variant of ClosingBraces: the closing loop is left out.
NoClosingBraces(braceCount, indentLevel) == <<>>

RECURSIVE ClosingBraces(_, _)
\* The closing loop: braceCount lines, each one level less indented.
ClosingBraces(braceCount, indentLevel) ==
    IF braceCount = 0 THEN <<>>
    ELSE <<Repeat("  ", indentLevel - 1) \o "}">>
         \o ClosingBraces(braceCount - 1, indentLevel - 1)

\* The end of convertPythonToJavaScript: the closing braces are added to the
\* lines and the lines joined.
CloseAndJoin(scan) ==
    Join(scan.result \o ClosingBraces(scan.braceCount, scan.indentLevel), "\n")

convertPythonToJavaScript(text) ==
    CloseAndJoin(IndentLines(Split(ApplyRules(text, PythonToJavaScriptRules), "\n"),
                             1,
                             [result |-> <<>>, braceCount |-> 0, indentLevel |-> 0]))

-----------------------------------------------------------------------------
(* The typed converters from Python                                        *)

convertPythonToTypeScript(text) ==
    ApplyRules(convertPythonToJavaScript(text),
               <<HeaderRule(FunctionPattern, "python-typescript")>>)

PythonToJavaRules ==
    << Rule(ParityPattern("!="), "n % 2 == 0"),
       HeaderRule(DefPattern, "python-java"),
       Rule(ReturnPattern, "        return $1;"),
       Rule(WordPattern("True"), "true"),
       Rule(WordPattern("False"), "false"),
       Rule(WordPattern("None"), "null"),
       Rule(PrintPattern, "System.out.println($1)") >>

convertPythonToJava(text) ==
    "public class CodeConverter {\n" \o ApplyRules(text, PythonToJavaRules)
    \o "\n    }\n\n    public static void main(String[] args) {\n"
    \o "        // Test the converted function\n"
    \o "        System.out.println(\"Testing converted function:\");\n"
    \o "        // Add test calls here\n    }\n}"

PythonToCppRules ==
    << Rule(ParityPattern("!="), "n % 2 == 0"),
       HeaderRule(DefPattern, "python-cpp"),
       Rule(ReturnPattern, "    return $1;"),
       Rule(WordPattern("True"), "true"),
       Rule(WordPattern("False"), "false"),
       Rule(PrintPattern, "cout << $1 << endl") >>

convertPythonToCpp(text) ==
    "#include <iostream>\nusing namespace std;\n\n"
    \o ApplyRules(text, PythonToCppRules)
    \o "\n}\n\nint main() {\n    cout << boolalpha;\n"
    \o "    // Test the converted function\n"
    \o "    cout << \"Testing converted function:\" << endl;\n"
    \o "    // Add test calls here\n    return 0;\n}"

-----------------------------------------------------------------------------
(* The converters to Python, and from JavaScript to TypeScript             *)

\* /type\s+(\w+)/ -> $1
DropType(type) ==
    Rule(<<Lit(type), Plus("s"), Open(1), Plus("w"), Close(1)>>, "$1")

\* /(t1|t2|..)\s+(\w+)\s*\((.*?)\)\s*{/ after the words of lead
MethodPattern(lead, types) ==
    lead \o <<Open(1), Alt(types), Close(1), Plus("s"), Open(2), Plus("w"), Close(2),
              Star("s"), Lit("("), Open(3), LazyStar("."), Close(3), Lit(")"),
              Star("s"), Lit("{")>>

JavaScriptToPythonRules ==
    << Rule(ParityPattern("!=="), "n % 2 == 0"),
       \* /function\s+(\w+)\s*\((.*?)\)\s*{/
       Rule(<<Lit("function"), Plus("s"), Open(1), Plus("w"), Close(1), Star("s"),
              Lit("("), Open(2), LazyStar("."), Close(2), Lit(")"), Star("s"),
              Lit("{")>>, "def $1($2):"),
       \* /(?:const|let|var)\s+(\w+)\s*=\s*(.+);/
       Rule(<<Alt(<<"const", "let", "var">>), Plus("s"), Open(1), Plus("w"), Close(1),
              Star("s"), Lit("="), Star("s"), Open(2), Plus("."), Close(2),
              Lit(";")>>, "$1 = $2"),
       Rule(ReturnSemiPattern, "return $1"),
       Rule(WordPattern("true"), "True"),
       Rule(WordPattern("false"), "False"),
       Rule(WordPattern("null"), "None"),
       \* /console\.log\s*\((.*?)\)/
       Rule(<<Lit("console.log"), Star("s"), Lit("("), Open(1), LazyStar("."),
              Close(1), Lit(")")>>, "print($1)"),
       Rule(CloseBracePattern, ""),
       Rule(SemiEolPattern, ""),
       \* the template literal pattern: a backquote, then (group 1)
       \* non-backquotes holding one ${...} part, then a backquote
       Rule(<<Lit(Backtick), Open(1), Star("^" \o Backtick), Lit("${"), Star("^}"),
              Lit("}"), Star("^" \o Backtick), Close(1), Lit(Backtick)>>, "f\"$1\""),
       \* /\$\{(\w+)\}/
       Rule(<<Lit("${"), Open(1), Plus("w"), Close(1), Lit("}")>>, "{$1}") >>

convertJavaScriptToPython(text) == ApplyRules(text, JavaScriptToPythonRules)

\* /(?:const|let)\s+(\w+)\s*=\s*/ followed by the value pattern
DeclarationPattern(value) ==
    <<Alt(<<"const", "let">>), Plus("s"), Open(1), Plus("w"), Close(1), Star("s"),
      Lit("="), Star("s")>> \o value

JavaScriptToTypeScriptRules ==
    << HeaderRule(FunctionPattern, "javascript-typescript"),
       Rule(DeclarationPattern(<<Open(2), Plus("d"), Close(2)>>),
            "const $1: number = $2"),
       Rule(DeclarationPattern(<<Open(2), Alt(<<"true", "false">>), Close(2)>>),
            "const $1: boolean = $2"),
       Rule(DeclarationPattern(<<Lit("\""), Open(2), Star("^\""), Close(2),
                                 Lit("\"")>>),
            "const $1: string = \"$2\"") >>

convertJavaScriptToTypeScript(text) ==
    ApplyRules(text, JavaScriptToTypeScriptRules)

JavaToPythonRules ==
    << \* /public\s+class\s+\w+\s*{[\s\S]*?public\s+static\s+/
       Rule(<<Lit("public"), Plus("s"), Lit("class"), Plus("s"), Plus("w"), Star("s"),
              Lit("{"), LazyStar("any"), Lit("public"), Plus("s"), Lit("static"),
              Plus("s")>>, ""),
       Rule(MethodPattern(<<Lit("public"), Plus("s"), Lit("static"), Plus("s")>>,
                          <<"boolean", "int", "void", "String">>), "def $2($3):"),
       DropType("int"),
       DropType("boolean"),
       DropType("String"),
       Rule(ReturnSemiPattern, "return $1"),
       Rule(WordPattern("true"), "True"),
       Rule(WordPattern("false"), "False"),
       Rule(WordPattern("null"), "None"),
       \* /System\.out\.println\s*\((.*?)\)/
       Rule(<<Lit("System.out.println"), Star("s"), Lit("("), Open(1), LazyStar("."),
              Close(1), Lit(")")>>, "print($1)"),
       Rule(CloseBracePattern, ""),
       Rule(SemiEolPattern, "") >>

convertJavaToPython(text) == ApplyRules(text, JavaToPythonRules)

CppToPythonRules ==
    << \* /#include\s*<.*?>/
       Rule(<<Lit("#include"), Star("s"), Lit("<"), LazyStar("."), Lit(">")>>, ""),
       \* /using\s+namespace\s+std;/
       Rule(<<Lit("using"), Plus("s"), Lit("namespace"), Plus("s"), Lit("std;")>>, ""),
       Rule(MethodPattern(<<>>, <<"bool", "int", "void", "auto">>), "def $2($3):"),
       DropType("int"),
       DropType("bool"),
       DropType("auto"),
       Rule(ReturnSemiPattern, "return $1"),
       Rule(WordPattern("true"), "True"),
       Rule(WordPattern("false"), "False"),
       \* /cout\s*<<\s*(.*?)\s*<<\s*endl/
       Rule(<<Lit("cout"), Star("s"), Lit("<<"), Star("s"), Open(1), LazyStar("."),
              Close(1), Star("s"), Lit("<<"), Star("s"), Lit("endl")>>, "print($1)"),
       Rule(CloseBracePattern, ""),
       Rule(SemiEolPattern, "") >>

convertCppToPython(text) == ApplyRules(text, CppToPythonRules)

-----------------------------------------------------------------------------
(* generateConversionTemplate, performLanguageConversion, convertCode      *)

getLanguageTemplate(language) ==
    CASE language = "javascript" ->
           "function convertedFunction() {\n    // Implement your logic here\n"
           \o "    return null;\n}"
      [] language = "python" ->
           "def converted_function():\n    # Implement your logic here\n"
           \o "    return None"
      [] language = "java" ->
           "public class ConvertedCode {\n"
           \o "    public static Object convertedFunction() {\n"
           \o "        // Implement your logic here\n        return null;\n    }\n}"
      [] language = "cpp" ->
           "#include <iostream>\nusing namespace std;\n\nauto convertedFunction() {\n"
           \o "    // Implement your logic here\n    return nullptr;\n}"
      [] OTHER -> "// Implement your converted logic here"

\* A faulty variant of CommentLines: the text is not split, so that its
\* first line alone is given the prefix.
CommentFirstLine(text) == " * " \o text

\* code.split('\n').map(line => ` * ${line}`).join('\n')
CommentLines(text) ==
    LET lines == Split(text, "\n")
    IN  Join([k \in 1..Len(lines) |-> " * " \o lines[k]], "\n")

generateConversionTemplate(text, sourceLanguage, targetLanguage) ==
    "// Converted from " \o sourceLanguage \o " to " \o targetLanguage \o "\n"
    \o "// Note: This conversion may require manual adjustment\n\n"
    \o "/* Original " \o sourceLanguage \o " code:\n"
    \o CommentLines(text) \o "\n */\n\n"
    \o "// TODO: Implement " \o targetLanguage \o " equivalent\n"
    \o "// The conversion for " \o sourceLanguage \o " -> " \o targetLanguage
    \o " requires manual implementation\n"
    \o "// Please review the original code above and implement the equivalent logic in "
    \o targetLanguage \o "\n\n"
    \o getLanguageTemplate(targetLanguage)

\* A faulty variant of performLanguageConversion: TypeScript text is taken
\* for JavaScript text and given to the converter to Python.
performLanguageConversionOfTypeScript(text, sourceLanguage, targetLanguage) ==
    LET conversionKey == sourceLanguage \o "-" \o targetLanguage
    IN  CASE conversionKey = "python-javascript" -> convertPythonToJavaScript(text)
          [] conversionKey = "python-typescript" -> convertPythonToTypeScript(text)
          [] conversionKey = "python-java" -> convertPythonToJava(text)
          [] conversionKey = "python-cpp" -> convertPythonToCpp(text)
          [] conversionKey \in {"javascript-python", "typescript-python"} ->
               convertJavaScriptToPython(text)
          [] conversionKey = "javascript-typescript" -> convertJavaScriptToTypeScript(text)
          [] conversionKey = "java-python" -> convertJavaToPython(text)
          [] conversionKey = "cpp-python" -> convertCppToPython(text)
          [] OTHER -> generateConversionTemplate(text, sourceLanguage, targetLanguage)

performLanguageConversion(text, sourceLanguage, targetLanguage) ==
    LET conversionKey == sourceLanguage \o "-" \o targetLanguage
    IN  CASE conversionKey = "python-javascript" -> convertPythonToJavaScript(text)
          [] conversionKey = "python-typescript" -> convertPythonToTypeScript(text)
          [] conversionKey = "python-java" -> convertPythonToJava(text)
          [] conversionKey = "python-cpp" -> convertPythonToCpp(text)
          [] conversionKey = "javascript-python" -> convertJavaScriptToPython(text)
          [] conversionKey = "javascript-typescript" -> convertJavaScriptToTypeScript(text)
          [] conversionKey = "java-python" -> convertJavaToPython(text)
          [] conversionKey = "cpp-python" -> convertCppToPython(text)
          [] OTHER -> generateConversionTemplate(text, sourceLanguage, targetLanguage)

\* What a convertCode call resolves with once its delay has passed.
convertCodeResult(text, sourceLanguage, targetLanguage, mode) ==
    IF mode = "fix" THEN fixLogicalErrors(text, sourceLanguage)
    ELSE performLanguageConversion(text, sourceLanguage, targetLanguage)

-----------------------------------------------------------------------------
(* JavaScript values of the test cases and the operators applied to them   *)

Num(n) == [t |-> "number", v |-> n]
NaN == [t |-> "nan", v |-> 0]
Bool(b) == [t |-> "boolean", v |-> IF b THEN 1 ELSE 0]
Null == [t |-> "null", v |-> 0]
Undefined == [t |-> "undefined", v |-> 0]
Array(items) == [t |-> "array", items |-> items]
\* A test case object; a property that is missing reads as undefined.
Case(input, expected) == [t |-> "object", input |-> input, expected |-> expected]

IsNullish(x) == x.t \in {"null", "undefined"}

Returned(x) == [threw |-> FALSE, value |-> x]
Thrown(message) == [threw |-> TRUE, message |-> message]

\* obj.name : a TypeError on null and undefined, undefined on a primitive
GetProp(obj, name) ==
    IF IsNullish(obj)
    THEN Thrown("Cannot read properties of " \o obj.t \o " (reading '" \o name \o "')")
    ELSE IF obj.t = "object"
    THEN Returned(IF name = "input" THEN obj.input ELSE obj.expected)
    ELSE Returned(Undefined)

\* arr[i], i counted from 0
GetIndex(arr, i) ==
    IF IsNullish(arr)
    THEN Thrown("Cannot read properties of " \o arr.t \o " (reading '0')")
    ELSE IF arr.t = "array" /\ i + 1 <= Len(arr.items)
    THEN Returned(arr.items[i + 1])
    ELSE Returned(Undefined)

\* const [a, b] = arr
Destructure(arr) ==
    IF arr.t # "array" THEN Thrown(arr.t \o " is not iterable")
    ELSE Returned(<<GetIndex(arr, 0).value, GetIndex(arr, 1).value>>)

ToNumber(x) ==
    CASE x.t = "number" -> x
      [] x.t = "boolean" -> Num(x.v)
      [] x.t = "null" -> Num(0)
      [] OTHER -> NaN

\* a % b : the sign of the result is the sign of a
Remainder(a, b) ==
    LET x == ToNumber(a)
        y == ToNumber(b)
    IN  IF x.t = "nan" \/ y.t = "nan" \/ y.v = 0 THEN NaN
        ELSE LET d == IF y.v < 0 THEN 0 - y.v ELSE y.v
             IN  IF x.v >= 0 THEN Num(x.v % d) ELSE Num(0 - ((0 - x.v) % d))

\* a + b on values that are not strings
Plus2(a, b) ==
    LET x == ToNumber(a)
        y == ToNumber(b)
    IN  IF x.t = "nan" \/ y.t = "nan" THEN NaN ELSE Num(x.v + y.v)

\* a * b written as the a + b of the branch above it: a faulty variant of
\* Times2
TimesAsPlus(a, b) == Plus2(a, b)

\* a * b
Times2(a, b) ==
    LET x == ToNumber(a)
        y == ToNumber(b)
    IN  IF x.t = "nan" \/ y.t = "nan" THEN NaN ELSE Num(x.v * y.v)

\* a === b, a being a primitive value
StrictEquals(a, b) ==
    /\ a.t = b.t
    /\ a.t \in {"number", "boolean", "null", "undefined"}
    /\ a.v = b.v

-----------------------------------------------------------------------------
(* extractFunctionName and runTestCases                                    *)

\* The header pattern of each language that has one (an empty pattern
\* stands for a language that has none).
FunctionNamePattern(language) ==
    CASE language = "python" -> <<Lit("def"), Plus("s"), Open(1), Plus("w"), Close(1)>>
      [] language \in {"javascript", "typescript"} ->
           <<Lit("function"), Plus("s"), Open(1), Plus("w"), Close(1)>>
      [] language = "java" ->
           <<Lit("public"), Plus("s"), Lit("static"), Plus("s"), Plus("w"), Plus("s"),
             Open(1), Plus("w"), Close(1)>>
      [] language = "cpp" ->
           <<Plus("w"), Plus("s"), Open(1), Plus("w"), Close(1), Star("s"), Lit("(")>>
      [] OTHER -> <<>>

\* A faulty variant of extractFunctionName: a language without a pattern is
\* given the pattern of JavaScript.
extractFunctionNameWithDefault(text, language) ==
    LET pattern == IF FunctionNamePattern(language) # <<>>
                   THEN FunctionNamePattern(language)
                   ELSE FunctionNamePattern("javascript")
        m == FindFrom(pattern, text, 1, MatchStarts(pattern, text))
    IN  IF m.ok THEN Group(text, m, 1) ELSE "unknown"

extractFunctionName(text, language) ==
    LET pattern == FunctionNamePattern(language)
    IN  IF pattern # <<>>
        THEN LET m == FindFrom(pattern, text, 1, MatchStarts(pattern, text))
             IN  IF m.ok THEN Group(text, m, 1) ELSE "unknown"
        ELSE "unknown"

\* A faulty variant of EvaluateCase: the name is tested for add and sum
\* before it is tested for even.
EvaluateCaseAdditionFirst(functionName, testCase) ==
    LET expected == GetProp(testCase, "expected")
        input == GetProp(testCase, "input")
        Compare(actual) ==
            Returned([passed |-> StrictEquals(actual, expected.value),
                      actual |-> actual,
                      expected |-> expected.value,
                      input |-> input.value])
    IN  IF Includes(functionName, "add") \/ Includes(functionName, "sum")
        THEN IF input.threw THEN input
             ELSE LET ab == Destructure(input.value)
                  IN  IF ab.threw THEN ab
                      ELSE Compare(Plus2(ab.value[1], ab.value[2]))
        ELSE IF Includes(functionName, "even") \/ Includes(functionName, "Even")
        THEN IF input.threw THEN input
             ELSE LET first == GetIndex(input.value, 0)
                  IN  IF first.threw THEN first
                      ELSE Compare(Bool(StrictEquals(Remainder(first.value, Num(2)),
                                                     Num(0))))
        ELSE IF Includes(functionName, "multiply")
        THEN IF input.threw THEN input
             ELSE LET ab == Destructure(input.value)
                  IN  IF ab.threw THEN ab
                      ELSE Compare(Times2(ab.value[1], ab.value[2]))
        ELSE IF expected.threw THEN expected
        ELSE Returned([passed |-> TRUE,
                       actual |-> expected.value,
                       expected |-> expected.value,
                       input |-> input.value])

\* The body of the try block for one test case.
EvaluateCase(functionName, testCase) ==
    LET expected == GetProp(testCase, "expected")
        input == GetProp(testCase, "input")
        Compare(actual) ==
            Returned([passed |-> StrictEquals(actual, expected.value),
                      actual |-> actual,
                      expected |-> expected.value,
                      input |-> input.value])
    IN  IF Includes(functionName, "even") \/ Includes(functionName, "Even")
        THEN IF input.threw THEN input
             ELSE LET first == GetIndex(input.value, 0)
                  IN  IF first.threw THEN first
                      ELSE Compare(Bool(StrictEquals(Remainder(first.value, Num(2)),
                                                     Num(0))))
        ELSE IF Includes(functionName, "add") \/ Includes(functionName, "sum")
        THEN IF input.threw THEN input
             ELSE LET ab == Destructure(input.value)
                  IN  IF ab.threw THEN ab
                      ELSE Compare(Plus2(ab.value[1], ab.value[2]))
        ELSE IF Includes(functionName, "multiply")
        THEN IF input.threw THEN input
             ELSE LET ab == Destructure(input.value)
                  IN  IF ab.threw THEN ab
                      ELSE Compare(Times2(ab.value[1], ab.value[2]))
        ELSE IF expected.threw THEN expected
        ELSE Returned([passed |-> TRUE,
                       actual |-> expected.value,
                       expected |-> expected.value,
                       input |-> input.value])

\* The map callback: the try block, and the catch block when it threw.  The
\* catch block reads testCase.expected and testCase.input again, and what it
\* throws leaves the callback.
RunCase(text, language, testCase) ==
    LET tried == EvaluateCase(extractFunctionName(text, language), testCase)
    IN  IF ~tried.threw THEN tried
        ELSE LET expected == GetProp(testCase, "expected")
                 input == GetProp(testCase, "input")
             IN  IF expected.threw THEN expected
                 ELSE Returned([passed |-> FALSE,
                                actual |-> Null,
                                expected |-> expected.value,
                                input |-> input.value,
                                error |-> tried.message])

\* A faulty variant of runTestCasesOutcome: the results of the catch block
\* are left out of the list.
runTestCasesWithoutErrors(text, language, cases) ==
    LET outs == [i \in 1..Len(cases) |-> RunCase(text, language, cases[i])]
        escaped == { i \in 1..Len(cases) : outs[i].threw }
        IsClean(out) == "error" \notin DOMAIN out.value
    IN  IF escaped = {}
        THEN [pc |-> "resolved",
              result |-> [i \in 1..Len(SelectSeq(outs, IsClean)) |->
                             SelectSeq(outs, IsClean)[i].value]]
        ELSE [pc |-> "rejected", result |-> outs[MinOf(escaped)].message]

\* What a runTestCases call settles with once its delay has passed: the
\* results of testCases.map, or the error that left a callback.
runTestCasesOutcome(text, language, cases) ==
    LET outs == [i \in 1..Len(cases) |-> RunCase(text, language, cases[i])]
        escaped == { i \in 1..Len(cases) : outs[i].threw }
    IN  IF escaped = {}
        THEN [pc |-> "resolved", result |-> [i \in 1..Len(cases) |-> outs[i].value]]
        ELSE [pc |-> "rejected", result |-> outs[MinOf(escaped)].message]

-----------------------------------------------------------------------------
(* detectLanguage                                                          *)

Word(w) == <<Lit(w), Plus("s")>>

\* The signature sets, in the order in which the function tests them.
SignatureSets ==
    << [language |-> "cpp",
        signatures |->
          << <<Lit("#include"), Star("s"), Lit("<")>>,
             <<Bol>> \o Word("int") \o <<Lit("main"), Star("s"), Lit("(")>>,
             <<Lit("std::"), Plus("w")>>,
             <<Lit("cout"), Star("s"), Lit("<<")>>,
             Word("using") \o Word("namespace") \o <<Lit("std")>> >>],
       [language |-> "python",
        signatures |->
          << <<Bol>> \o Word("def") \o <<Plus("w"), Star("s"), Lit("(")>>,
             <<Bol>> \o Word("class") \o <<Plus("w")>>,
             Word("import") \o <<Plus("w")>>,
             Word("from") \o <<Plus("w")>> \o <<Plus("s"), Lit("import")>>,
             <<Lit("print"), Star("s"), Lit("(")>> >>],
       [language |-> "javascript",
        signatures |->
          << <<Bol>> \o Word("function") \o <<Plus("w"), Star("s"), Lit("(")>>,
             <<Bol>> \o Word("const") \o <<Plus("w"), Star("s"), Lit("=")>>,
             <<Bol>> \o Word("let") \o <<Plus("w"), Star("s"), Lit("=")>>,
             <<Bol>> \o Word("var") \o <<Plus("w"), Star("s"), Lit("=")>>,
             <<Bol>> \o Word("export") \o <<Opt(Word("default"))>>,
             <<Bol>> \o Word("import") \o <<Star("."), Lit("from")>>,
             <<Lit("console.log")>> >>],
       [language |-> "java",
        signatures |->
          << <<Bol>> \o Word("public") \o Word("class") \o <<Plus("w")>>,
             <<Bol>> \o Word("public") \o Word("static") \o Word("void")
                \o <<Lit("main")>>,
             <<Bol>> \o Word("package") \o <<Plus("w")>>,
             <<Lit("System.out.println")>> >>],
       [language |-> "csharp",
        signatures |->
          << <<Bol>> \o Word("using") \o <<Lit("System")>>,
             <<Bol>> \o Word("namespace") \o <<Plus("w")>>,
             <<Lit("Console.WriteLine")>> >>],
       [language |-> "go",
        signatures |->
          << <<Bol>> \o Word("package") \o <<Lit("main")>>,
             <<Bol>> \o Word("func") \o <<Plus("w")>>,
             <<Lit("fmt.Print")>> >>],
       [language |-> "rust",
        signatures |->
          << <<Bol>> \o Word("fn") \o <<Plus("w")>>,
             <<Lit("println!"), Star("s"), Lit("(")>>,
             Word("let") \o Word("mut") >>] >>

\* Whether some signature of the k-th set matches the text.
SignatureMatches(k, text) ==
    \E j \in 1..Len(SignatureSets[k].signatures) :
        Test(SignatureSets[k].signatures[j], text)

\* A faulty variant of detectLanguage: text that no signature matches is
\* taken for JavaScript.
detectLanguageOrJavaScript(text) ==
    LET trimmedCode == Trim(text)
        matching == { k \in 1..Len(SignatureSets) : SignatureMatches(k, trimmedCode) }
    IN  IF matching = {} THEN "javascript"
        ELSE LET first == SignatureSets[MinOf(matching)].language
             IN  IF first = "javascript"
                 THEN IF Includes(trimmedCode, ": ") /\ Includes(trimmedCode, "function")
                      THEN "typescript" ELSE "javascript"
                 ELSE first

\* A faulty variant of detectLanguage: the tests go on after a match, so the
\* last language whose signatures match is returned.
detectLanguageLastMatch(text) ==
    LET trimmedCode == Trim(text)
        matching == { k \in 1..Len(SignatureSets) : SignatureMatches(k, trimmedCode) }
    IN  IF matching = {} THEN "plaintext"
        ELSE LET last == SignatureSets[MaxOf(matching)].language
             IN  IF last = "javascript"
                 THEN IF Includes(trimmedCode, ": ") /\ Includes(trimmedCode, "function")
                      THEN "typescript" ELSE "javascript"
                 ELSE last

detectLanguage(text) ==
    LET trimmedCode == Trim(text)
        matching == { k \in 1..Len(SignatureSets) : SignatureMatches(k, trimmedCode) }
    IN  IF matching = {} THEN "plaintext"
        ELSE LET first == SignatureSets[MinOf(matching)].language
             IN  IF first = "javascript"
                 THEN IF Includes(trimmedCode, ": ") /\ Includes(trimmedCode, "function")
                      THEN "typescript" ELSE "javascript"
                 ELSE first

-----------------------------------------------------------------------------
(* The inputs of the model                                                 *)

\* SUPPORTED_LANGUAGES, the values
Languages ==
    {"javascript", "typescript", "python", "java", "cpp", "csharp", "go", "rust",
     "plaintext"}

\* The longest text of a specification is MaxParts parts long.
MaxParts == 2
\* The longest list of test cases.
MaxCases == 2
\* The number of conversions the host application is followed through.
MaxConversions == 11

RECURSIVE Texts(_, _)
\* The texts made of at most n of the given parts.
Texts(parts, n) ==
    IF n = 0 THEN {""}
    ELSE LET shorter == Texts(parts, n - 1)
         IN  shorter \cup { t \o q : t \in shorter, q \in parts }

RECURSIVE Lists(_, _)
\* The lists of at most n of the given elements.
Lists(elements, n) ==
    IF n = 0 THEN {<<>>}
    ELSE LET shorter == Lists(elements, n - 1)
         IN  shorter \cup { Append(l, e) : l \in shorter, e \in elements }

\* The snippet the host application starts with, without its comment.
IsEvenPython == "def is_even(n):\n    return n % 2 != 0"

\* The test cases the host application starts with.
DefaultCases ==
    <<Case(Array(<<Num(2)>>), Bool(TRUE)), Case(Array(<<Num(3)>>), Bool(FALSE))>>

\* The state of the App component as it is mounted, apart from the text and
\* the test cases: the languages and the mode selected, the text last
\* produced, the history of conversions, and whether a conversion is going on.
AppStart ==
    [sourceLanguage |-> "python", targetLanguage |-> "javascript", mode |-> "fix",
     convertedCode |-> "", conversions |-> <<>>, isConverting |-> FALSE]

-----------------------------------------------------------------------------
(* The calls in flight                                                     *)

Idle == [op |-> "none", pc |-> "idle"]

Slots == DOMAIN calls

\* convertCode is called: the call waits for its timer.
StartConvert(c, sourceLanguage, targetLanguage, mode) ==
    /\ calls[c].pc = "idle"
    /\ calls' = [calls EXCEPT ![c] =
                    [op |-> "convertCode", pc |-> "delay", code |-> code,
                     sourceLanguage |-> sourceLanguage,
                     targetLanguage |-> targetLanguage, mode |-> mode,
                     result |-> ""]]
    /\ UNCHANGED <<code, testCases, detected, app, now>>

\* A faulty variant of ResolveConvert: the call converts the text the editor
\* holds when the timer fires, not the text it was called with.
ResolveConvertOfEditorText(c) ==
    /\ calls[c].op = "convertCode"
    /\ calls[c].pc = "delay"
    /\ calls' = [calls EXCEPT ![c].pc = "resolved",
                              ![c].result =
                                  convertCodeResult(code,
                                                    calls[c].sourceLanguage,
                                                    calls[c].targetLanguage,
                                                    calls[c].mode)]
    /\ UNCHANGED <<code, testCases, detected, app, now>>

\* The timer of a convertCode call fires: the call resolves.
ResolveConvert(c) ==
    /\ calls[c].op = "convertCode"
    /\ calls[c].pc = "delay"
    /\ calls' = [calls EXCEPT ![c].pc = "resolved",
                              ![c].result =
                                  convertCodeResult(calls[c].code,
                                                    calls[c].sourceLanguage,
                                                    calls[c].targetLanguage,
                                                    calls[c].mode)]
    /\ UNCHANGED <<code, testCases, detected, app, now>>

\* runTestCases is called: the call waits for its timer.
StartRunTests(c, language) ==
    /\ calls[c].pc = "idle"
    /\ calls' = [calls EXCEPT ![c] =
                    [op |-> "runTestCases", pc |-> "delay", code |-> code,
                     language |-> language, testCases |-> testCases,
                     result |-> <<>>]]
    /\ UNCHANGED <<code, testCases, detected, app, now>>

\* The timer of a runTestCases call fires: the call resolves with the
\* results, or rejects with the error that left the map callback.
SettleRunTests(c) ==
    /\ calls[c].op = "runTestCases"
    /\ calls[c].pc = "delay"
    /\ LET outcome == runTestCasesOutcome(calls[c].code, calls[c].language,
                                          calls[c].testCases)
       IN  calls' = [calls EXCEPT ![c].pc = outcome.pc,
                                  ![c].result = outcome.result]
    /\ UNCHANGED <<code, testCases, detected, app, now>>

\* The caller has taken the outcome of a settled call.
Release(c) ==
    /\ calls[c].pc \in {"resolved", "rejected"}
    /\ calls' = [calls EXCEPT ![c] = Idle]
    /\ UNCHANGED <<code, testCases, detected, app, now>>

\* detectLanguage is applied to the text.
Detect ==
    /\ detected = "none"
    /\ detected' = detectLanguage(code)
    /\ UNCHANGED <<code, testCases, calls, app, now>>

\* The text of the editor changes: setOriginalCode, and then the effect that
\* follows every change of the text, which detects its language and selects
\* it as the source language unless it is plaintext.
setOriginalCode(text) ==
    /\ text # code
    /\ code' = text
    /\ detected' = detectLanguage(text)
    /\ app' = IF detected' # "plaintext"
              THEN [app EXCEPT !.sourceLanguage = detected']
              ELSE app
    /\ UNCHANGED <<testCases, calls, now>>

\* The number of earlier conversions the history keeps under a new one.
HistoryKept == 9

\* The Convert button is clicked: it is enabled while no conversion is going
\* on and the text is not blank.  handleConvert sets isConverting and calls
\* convertCode with the text, the languages and the mode of this render.
handleConvert(c) ==
    /\ ~app.isConverting
    /\ Trim(code) # ""
    /\ calls[c].pc = "idle"
    /\ now < MaxConversions
    /\ calls' = [calls EXCEPT ![c] =
                    [op |-> "convertCode", pc |-> "delay", code |-> code,
                     sourceLanguage |-> app.sourceLanguage,
                     targetLanguage |-> app.targetLanguage, mode |-> app.mode,
                     result |-> ""]]
    /\ app' = [app EXCEPT !.isConverting = TRUE]
    /\ now' = now + 1
    /\ UNCHANGED <<code, testCases, detected>>

\* A faulty variant of handleConvertResumes: the entry of the history is
\* made of the text and the source language the application holds when the
\* call resolves.
handleConvertResumesWithEditorText(c) ==
    /\ calls[c].op = "convertCode"
    /\ calls[c].pc = "resolved"
    /\ LET newConversion ==
               [id |-> ToString(now), timestamp |-> now,
                originalCode |-> code,
                convertedCode |-> calls[c].result,
                sourceLanguage |-> app.sourceLanguage,
                targetLanguage |-> calls[c].targetLanguage,
                mode |-> calls[c].mode]
       IN  app' = [app EXCEPT
                      !.convertedCode = calls[c].result,
                      !.conversions =
                          <<newConversion>>
                          \o SubSeq(app.conversions, 1,
                                    MinOf({HistoryKept, Len(app.conversions)})),
                      !.isConverting = FALSE]
    /\ calls' = [calls EXCEPT ![c] = Idle]
    /\ UNCHANGED <<code, testCases, detected, now>>

\* handleConvert goes on after its await: the result becomes the converted
\* code, the conversion is put in front of the nine latest of the history,
\* with the text, the languages and the mode of the render that made the
\* call, and isConverting is reset.
handleConvertResumes(c) ==
    /\ calls[c].op = "convertCode"
    /\ calls[c].pc = "resolved"
    /\ LET newConversion ==
               [id |-> ToString(now), timestamp |-> now,
                originalCode |-> calls[c].code,
                convertedCode |-> calls[c].result,
                sourceLanguage |-> calls[c].sourceLanguage,
                targetLanguage |-> calls[c].targetLanguage,
                mode |-> calls[c].mode]
       IN  app' = [app EXCEPT
                      !.convertedCode = calls[c].result,
                      !.conversions =
                          <<newConversion>>
                          \o SubSeq(app.conversions, 1,
                                    MinOf({HistoryKept, Len(app.conversions)})),
                      !.isConverting = FALSE]
    /\ calls' = [calls EXCEPT ![c] = Idle]
    /\ UNCHANGED <<code, testCases, detected, now>>

-----------------------------------------------------------------------------
(* Spec: two callers, both entry points                                    *)

SpecCodes ==
    { IsEvenPython,
      "function isEven(n) {\n  return n % 2 !== 0 && true;\n}",
      "total = 1" }
SpecSources == {"python", "javascript"}
SpecTargets == {"javascript", "go"}

Init ==
    /\ code \in SpecCodes
    /\ testCases \in {<<>>, DefaultCases}
    /\ calls = [c \in {1, 2} |-> Idle]
    /\ detected = "none"
    /\ app = AppStart
    /\ now = 0

Next ==
    \/ \E c \in Slots, s \in SpecSources, t \in SpecTargets, m \in {"fix", "convert"} :
          StartConvert(c, s, t, m)
    \/ \E c \in Slots : ResolveConvert(c)
    \/ \E c \in Slots, l \in SpecSources : StartRunTests(c, l)
    \/ \E c \in Slots : SettleRunTests(c)
    \/ \E c \in Slots : Release(c)
    \/ Detect

Spec == Init /\ [][Next]_vars

-----------------------------------------------------------------------------
(* SpecFix: one caller of convertCode in mode fix                          *)

\* The parts of the texts given to the fixer.
FixParts ==
    { "n % 2 != 0", "n % 2 !&& true= 0", " && true", "\n", "return x[arr.length]" }

FixLanguages == {"python", "javascript", "plaintext"}

InitFix ==
    /\ code \in Texts(FixParts, MaxParts)
    /\ testCases = <<>>
    /\ calls = [c \in {1} |-> Idle]
    /\ detected = "none"
    /\ app = AppStart
    /\ now = 0

NextFix ==
    \/ \E c \in Slots, s \in FixLanguages, t \in FixLanguages :
          StartConvert(c, s, t, "fix")
    \/ \E c \in Slots : ResolveConvert(c)
    \/ \E c \in Slots : Release(c)

SpecFix == InitFix /\ [][NextFix]_vars

-----------------------------------------------------------------------------
(* Properties of convertCode in mode fix, under SpecFix and Spec           *)

\* The convertCode calls that have resolved.
ResolvedConverts ==
    { c \in Slots : calls[c].op = "convertCode" /\ calls[c].pc = "resolved" }

ResolvedFixes == { c \in ResolvedConverts : calls[c].mode = "fix" }

\* C3: for any snippet that holds n % 2 != 0, and whatever the language
\* arguments, convertCode in mode fix returns text that holds n % 2 == 0 and
\* holds n % 2 != 0 no more.
C3_ParityComparisonFixed ==
    \A c \in ResolvedFixes :
        Includes(calls[c].code, "n % 2 != 0") =>
           /\ Includes(calls[c].result, "n % 2 == 0")
           /\ ~Includes(calls[c].result, "n % 2 != 0")

\* C10: in mode fix the result of convertCode depends on the text alone: two
\* fix calls on the same text return the same text, whatever their source
\* and target languages.
C10_FixIgnoresLanguages ==
    \A c1 \in ResolvedFixes, c2 \in ResolvedFixes :
        calls[c1].code = calls[c2].code => calls[c1].result = calls[c2].result

\* Two fix calls that differ in both languages have resolved, on a text the
\* fixer changes.
C10_Witness ==
    \E c1 \in ResolvedFixes, c2 \in ResolvedFixes :
        /\ calls[c1].code = calls[c2].code
        /\ calls[c1].sourceLanguage # calls[c2].sourceLanguage
        /\ calls[c1].targetLanguage # calls[c2].targetLanguage
        /\ calls[c1].result # calls[c1].code

-----------------------------------------------------------------------------
(* SpecRules: one caller of convertCode in mode fix, every rule            *)

\* The parts of the texts given to the fixer: one for each of the six rules,
\* and the parity check as it should be.
RuleParts ==
    { "n % 2 != 0", "n % 2 !== 0", "for (i = 0; i < arr.length - 1", "x[arr.length]",
      "a && true", "b || false", "n % 2 == 0", "\n" }

InitRules ==
    /\ code \in Texts(RuleParts, MaxParts)
    /\ testCases = <<>>
    /\ calls = [c \in {1} |-> Idle]
    /\ detected = "none"
    /\ app = AppStart
    /\ now = 0

NextRules ==
    \/ \E c \in Slots, s \in {"python", "javascript"} : StartConvert(c, s, s, "fix")
    \/ \E c \in Slots : ResolveConvert(c)
    \/ \E c \in Slots : Release(c)

SpecRules == InitRules /\ [][NextRules]_vars

-----------------------------------------------------------------------------
(* Properties of the six rules, under SpecRules                            *)

\* The text rule k of the table is applied to, when the fixer is given text.
TextBefore(text, k) == ApplyErrorPatterns(<<text>>)[k]

\* Rule k has something to rewrite in the text it is applied to, and its
\* explanation is not yet in the text it has rewritten.
RuleExplains(text, k) ==
    LET rule == errorPatterns[k]
        before == TextBefore(text, k)
    IN  /\ Test(rule.pattern, before)
        /\ ~Includes(ReplaceAll(rule.pattern, before, rule.replacement), rule.comment)

\* The texts rule k writes in place of its matches.
Written(text, k) ==
    LET rule == errorPatterns[k]
        before == TextBefore(text, k)
        ms == Matches(rule.pattern, before)
    IN  { Expand(rule.replacement, 1, before, ms[j]) : j \in 1..Len(ms) }

\* C14: each of the six rules that rewrites something, and whose explanation
\* is not in the text yet, leaves its explanation as a comment right after
\* an occurrence of the text it wrote; the comment is not left out, and it
\* is not put at the start of the snippet when nothing was rewritten there.
C14_CommentAfterReplacement ==
    \A c \in ResolvedFixes : \A k \in 1..Len(errorPatterns) :
        RuleExplains(calls[c].code, k) =>
           LET remark == "  // " \o errorPatterns[k].comment
           IN  /\ \E w \in Written(calls[c].code, k) :
                     Includes(calls[c].result, w \o remark)
               /\ StartsWith(calls[c].result, remark) =>
                     1 \in MatchStarts(errorPatterns[k].pattern,
                                       TextBefore(calls[c].code, k))

\* C15: of a snippet that holds && true or || false the fixer returns text
\* that holds neither, in what it kept and in what it added.
C15_NoRedundantOperandLeft ==
    \A c \in ResolvedFixes :
        (Includes(calls[c].code, "&& true") \/ Includes(calls[c].code, "|| false")) =>
           /\ ~Includes(calls[c].result, "&& true")
           /\ ~Includes(calls[c].result, "|| false")

\* The rules whose pattern occurs in text.
MatchingRules(text) ==
    { k \in 1..Len(errorPatterns) : Test(errorPatterns[k].pattern, text) }

\* C16: the fixer returns a text in which none of the six patterns occurs as
\* it is; and what it returns for a snippet in which the parity rules alone
\* match is such a text, so that fixing it once more changes nothing.
C16_FixedTextIsLeftAlone ==
    \A c \in ResolvedFixes :
        /\ MatchingRules(calls[c].code) = {} => calls[c].result = calls[c].code
        /\ (MatchingRules(calls[c].code) # {} /\ MatchingRules(calls[c].code) \subseteq {1, 2}) =>
              /\ MatchingRules(calls[c].result) = {}
              /\ fixLogicalErrors(calls[c].result, calls[c].sourceLanguage)
                    = calls[c].result

\* The fixer has rewritten both spellings of the parity check of a snippet,
\* and makes nothing else of what it returned.
C16_Witness ==
    \E c \in ResolvedFixes :
        /\ MatchingRules(calls[c].code) = {1, 2}
                /\ calls[c].result # calls[c].code
        /\ fixLogicalErrors(calls[c].result, calls[c].sourceLanguage) = calls[c].result

-----------------------------------------------------------------------------
(* SpecConvert: one caller of convertCode in mode convert, every pair      *)

\* The parts of the texts given to the converters, and the snippet of the
\* host application.
ConvertParts == { "x = 1", "\n", "return n % 2 != 0" }

InitConvert ==
    /\ code \in Texts(ConvertParts, MaxParts) \cup {IsEvenPython}
    /\ testCases = <<>>
    /\ calls = [c \in {1} |-> Idle]
    /\ detected = "none"
    /\ app = AppStart
    /\ now = 0

NextConvert ==
    \/ \E c \in Slots, s \in Languages, t \in Languages :
          StartConvert(c, s, t, "convert")
    \/ \E c \in Slots : ResolveConvert(c)
    \/ \E c \in Slots : Release(c)

SpecConvert == InitConvert /\ [][NextConvert]_vars

-----------------------------------------------------------------------------
(* Properties of convertCode in mode convert, under SpecConvert            *)

\* The pairs that have a converter of their own.
ImplementedPairs ==
    { <<"python", "javascript">>, <<"python", "typescript">>, <<"python", "java">>,
      <<"python", "cpp">>, <<"javascript", "python">>, <<"javascript", "typescript">>,
      <<"java", "python">>, <<"cpp", "python">> }

\* The convertCode calls in mode convert on a pair without a converter that
\* are no longer waiting for their timer.
SettledOthers ==
    { c \in Slots : /\ calls[c].op = "convertCode"
                    /\ calls[c].pc # "delay"
                    /\ calls[c].mode = "convert"
                    /\ <<calls[c].sourceLanguage, calls[c].targetLanguage>>
                          \notin ImplementedPairs }

\* C4 as the specification states it: the scaffold holds the whole source
\* text, of one line or of several, as one contiguous unmodified substring.
C4_SourceContiguous ==
    \A c \in SettledOthers : Includes(calls[c].result, calls[c].code)

\* C4, amended: the block comment of the scaffold holds every line of the
\* source text, in order and unmodified, each after the prefix space, star,
\* space; so the scaffold holds a source text of one line as a contiguous
\* substring.
C4_SourceLinesInComment ==
    \A c \in SettledOthers :
        LET out == Split(calls[c].result, "\n")
            lines == Split(calls[c].code, "\n")
        IN  /\ out[4] = "/* Original " \o calls[c].sourceLanguage \o " code:"
            /\ \A k \in 1..Len(lines) : out[4 + k] = " * " \o lines[k]
            /\ out[5 + Len(lines)] = " */"
            /\ Len(lines) = 1 => Includes(calls[c].result, calls[c].code)

\* A scaffold has been made of a source text of several lines, and does not
\* hold it as a substring.
C4_Witness ==
    \E c \in SettledOthers :
        /\ Len(Split(calls[c].code, "\n")) > 1
        /\ Trim(calls[c].code) # ""
        /\ ~Includes(calls[c].result, calls[c].code)

\* C5: in mode convert every pair of languages that has no converter of its
\* own, the identity pairs and the pairs with csharp, go, rust or plaintext
\* among them, makes convertCode resolve, never fail, and resolve with the
\* scaffold for that source and that target.
C5_OtherPairsScaffold ==
    \A c \in SettledOthers :
        /\ calls[c].pc = "resolved"
        /\ calls[c].result = generateConversionTemplate(calls[c].code,
                                                        calls[c].sourceLanguage,
                                                        calls[c].targetLanguage)
        /\ StartsWith(calls[c].result,
                      "// Converted from " \o calls[c].sourceLanguage \o " to "
                      \o calls[c].targetLanguage \o "\n")

\* A call from TypeScript to Python has resolved with a scaffold.
C5_Witness ==
    \E c \in SettledOthers :
        /\ calls[c].sourceLanguage = "typescript"
        /\ calls[c].targetLanguage = "python"
        /\ calls[c].code # ""
        /\ StartsWith(calls[c].result, "// Converted from typescript to python\n")

\* The calls that have converted the snippet of the host application from
\* Python to JavaScript.
IsEvenConverted ==
    { c \in ResolvedConverts : /\ calls[c].mode = "convert"
                               /\ calls[c].code = IsEvenPython
                               /\ calls[c].sourceLanguage = "python"
                               /\ calls[c].targetLanguage = "javascript" }

\* The number of times the character ch stands in text.
Count(text, ch) == Cardinality({ i \in 1..Len(text) : CharAt(text, i) = ch })

\* C6: converting the two lines def is_even(n): and return n % 2 != 0 from
\* Python to JavaScript gives text with as many opening as closing braces,
\* which holds n % 2 === 0 and holds != 0 no more.
C6_IsEvenToJavaScript ==
    \A c \in IsEvenConverted :
        /\ Count(calls[c].result, "{") = Count(calls[c].result, "}")
        /\ Includes(calls[c].result, "n % 2 === 0")
        /\ ~Includes(calls[c].result, "!= 0")

\* The snippet has been converted, to a function with one pair of braces.
C6_Witness ==
    \E c \in IsEvenConverted :
        calls[c].result = "function is_even(n) {\n  return n % 2 === 0;\n}"

\* The calls in mode convert that a converter of their pair has resolved.
ResolvedPairs ==
    { c \in ResolvedConverts :
         /\ calls[c].mode = "convert"
         /\ <<calls[c].sourceLanguage, calls[c].targetLanguage>> \in ImplementedPairs }

\* The inverted parity check, in its loose or in its strict spelling.
HoldsInvertedParity(text) ==
    Includes(text, "n % 2 != 0") \/ Includes(text, "n % 2 !== 0")

\* C12: every one of the eight converters straightens the inverted parity
\* check: of a text that holds n % 2 != 0 or n % 2 !== 0 it makes a text
\* that holds the comparison as an equality with 0 and holds the inverted
\* check no more.
C12_EveryConverterFixesParity ==
    \A c \in ResolvedPairs :
        HoldsInvertedParity(calls[c].code) =>
           /\ ~HoldsInvertedParity(calls[c].result)
           /\ \/ Includes(calls[c].result, "n % 2 == 0")
              \/ Includes(calls[c].result, "n % 2 === 0")

\* The pairs whose converter writes braces around the blocks of Python text.
BracePairs ==
    { <<"python", "javascript">>, <<"python", "typescript">>, <<"python", "java">>,
      <<"python", "cpp">> }

\* C17: a converter from Python to a language with braces adds as many
\* closing braces as opening ones, whatever the number of headers in the
\* source: the braces of the result that were not in the source are balanced.
C17_AddedBracesBalanced ==
    \A c \in ResolvedPairs :
        <<calls[c].sourceLanguage, calls[c].targetLanguage>> \in BracePairs =>
           Count(calls[c].result, "{") - Count(calls[c].code, "{")
              = Count(calls[c].result, "}") - Count(calls[c].code, "}")

-----------------------------------------------------------------------------
(* SpecTyped: one caller of the converters that annotate function headers  *)

\* The names of the functions converted.
TypedNames == {"is_even", "is_odd", "add", "sum_all", "multiply", "run"}

PythonHeader(name) == "def " \o name \o "(a, b):\n"
JavaScriptHeader(name) == "function " \o name \o "(a, b) {\n"

\* Python texts and JavaScript texts of at most MaxParts function headers.
TypedCodes ==
    Texts({ PythonHeader(name) : name \in TypedNames }, MaxParts)
    \cup Texts({ JavaScriptHeader(name) : name \in TypedNames }, MaxParts)

\* The pairs whose converter annotates function headers with types.
TypedPairs ==
    { <<"python", "typescript">>, <<"javascript", "typescript">>,
      <<"python", "java">>, <<"python", "cpp">> }

InitTyped ==
    /\ code \in TypedCodes
    /\ testCases = <<>>
    /\ calls = [c \in {1} |-> Idle]
    /\ detected = "none"
    /\ app = AppStart
    /\ now = 0

NextTyped ==
    \/ \E c \in Slots, pair \in TypedPairs :
          StartConvert(c, pair[1], pair[2], "convert")
    \/ \E c \in Slots : ResolveConvert(c)
    \/ \E c \in Slots : Release(c)

SpecTyped == InitTyped /\ [][NextTyped]_vars

-----------------------------------------------------------------------------
(* Properties of the typed converters, under SpecTyped                     *)

\* The kind of signature a name is to get: the one classification of all
\* four converters.
SignatureKind(name) ==
    IF Includes(name, "even") \/ Includes(name, "odd") THEN "boolean"
    ELSE IF Includes(name, "add") \/ Includes(name, "sum")
            \/ Includes(name, "multiply") THEN "numeric"
    ELSE "other"

\* The header of function name, of parameters a and b, with the signature of
\* its kind in the target language.
TypedSignature(targetLanguage, name) ==
    LET kind == SignatureKind(name)
    IN  CASE targetLanguage = "typescript" ->
               LET type == IF kind = "other" THEN "any" ELSE "number"
                   returns == CASE kind = "boolean" -> "boolean"
                                [] kind = "numeric" -> "number"
                                [] OTHER -> "any"
               IN  "function " \o name \o "(a: " \o type \o ", b: " \o type
                   \o "): " \o returns
          [] targetLanguage = "java" ->
               LET type == IF kind = "other" THEN "Object" ELSE "int"
                   returns == CASE kind = "boolean" -> "boolean"
                                [] kind = "numeric" -> "int"
                                [] OTHER -> "Object"
               IN  "public static " \o returns \o " " \o name \o "(" \o type
                   \o " a, " \o type \o " b) {"
          [] targetLanguage = "cpp" ->
               LET type == IF kind = "other" THEN "auto" ELSE "int"
                   returns == CASE kind = "boolean" -> "bool"
                                [] kind = "numeric" -> "int"
                                [] OTHER -> "auto"
               IN  returns \o " " \o name \o "(" \o type \o " a, " \o type
                   \o " b) {"

\* The header of function name in the source language.
SourceHeader(sourceLanguage, name) ==
    IF sourceLanguage = "python" THEN PythonHeader(name) ELSE JavaScriptHeader(name)

\* C13: each of the four typed converters gives every function it converts
\* the signature of its name: boolean with numeric parameters for a name
\* that holds even or odd, numeric with numeric parameters for a name that
\* holds add, sum or multiply, and the least specific type of the target
\* (any, Object, auto) for every other name.
C13_SignatureByName ==
    \A c \in ResolvedPairs : \A name \in TypedNames :
        Includes(calls[c].code, SourceHeader(calls[c].sourceLanguage, name)) =>
           Includes(calls[c].result, TypedSignature(calls[c].targetLanguage, name))

-----------------------------------------------------------------------------
(* SpecTests: one caller of runTestCases, every language                   *)

IsEvenJavaScript == "function isEven(n) {\n  return n % 2 === 0;\n}"
AddJavaScript == "function add(a, b) {\n  return a + b;\n}"
MultiplyPython == "def multiply(a, b):\n    return a * b"

TestCodes ==
    { "def is_even(n):\n    return n % 2 == 0",
      IsEvenJavaScript,
      AddJavaScript,
      MultiplyPython,
      "public static int sum(int a, int b) {",
      "total = 1" }

\* The elements of the test case lists: null, a case without input, the two
\* cases of the host application, and a case with two numbers.
TestElements ==
    { Null,
      Case(Undefined, Bool(TRUE)),
      Case(Array(<<Num(2)>>), Bool(TRUE)),
      Case(Array(<<Num(3)>>), Bool(FALSE)),
      Case(Array(<<Num(2), Num(3)>>), Num(5)) }

InitTests ==
    /\ code \in TestCodes
    /\ testCases \in Lists(TestElements, MaxCases)
    /\ calls = [c \in {1} |-> Idle]
    /\ detected = "none"
    /\ app = AppStart
    /\ now = 0

NextTests ==
    \/ \E c \in Slots, l \in Languages : StartRunTests(c, l)
    \/ \E c \in Slots : SettleRunTests(c)
    \/ \E c \in Slots : Release(c)

SpecTests == InitTests /\ [][NextTests]_vars

-----------------------------------------------------------------------------
(* Properties of runTestCases, under SpecTests                             *)

\* The runTestCases calls that have settled, and those that have resolved.
SettledRuns ==
    { c \in Slots : calls[c].op = "runTestCases"
                    /\ calls[c].pc \in {"resolved", "rejected"} }
ResolvedRuns == { c \in SettledRuns : calls[c].pc = "resolved" }

IsCaseObject(x) == x.t = "object"

\* C1: the list a runTestCases call resolves with is as long as the list of
\* test cases it was given, and its i-th result carries the input and the
\* expected value of the i-th test case, so that no case is dropped,
\* duplicated or reordered; and a call given test case objects only, the
\* empty list included, does resolve.
C1_ResultsMatchCases ==
    \A c \in SettledRuns :
        LET given == calls[c].testCases
            results == calls[c].result
        IN  /\ (\A i \in 1..Len(given) : IsCaseObject(given[i]))
                  => calls[c].pc = "resolved"
            /\ calls[c].pc = "resolved" =>
                  /\ Len(results) = Len(given)
                  /\ \A i \in 1..Len(given) :
                        /\ IsCaseObject(given[i])
                        /\ results[i].input = given[i].input
                        /\ results[i].expected = given[i].expected

\* A call has resolved on two different test cases, the first of which went
\* through the catch block.
C1_Witness ==
    \E c \in ResolvedRuns :
        /\ Len(calls[c].testCases) = 2
        /\ calls[c].testCases[1] # calls[c].testCases[2]
        /\ "error" \in DOMAIN calls[c].result[1]
        /\ calls[c].result[2].passed

\* C2: an error raised while one test case is evaluated does not leave the
\* batch: the call resolves, the result of that case has passed = false,
\* actual = null and the message of the error, and every other case has the
\* result it has without that error.
C2_ErrorsStayInTheirCase ==
    \A c \in SettledRuns :
        /\ calls[c].pc = "resolved"
        /\ \A i \in 1..Len(calls[c].testCases) :
              LET tried == EvaluateCase(
                               extractFunctionName(calls[c].code, calls[c].language),
                               calls[c].testCases[i])
                  result == calls[c].result[i]
              IN  IF tried.threw
                  THEN /\ result.passed = FALSE
                       /\ result.actual = Null
                       /\ "error" \in DOMAIN result
                       /\ result.error = tried.message
                  ELSE result = tried.value

\* The category of a function name, in the order in which the names are read.
NameCategory(name) ==
    IF Includes(name, "even") \/ Includes(name, "Even") THEN "parity"
    ELSE IF Includes(name, "add") \/ Includes(name, "sum") THEN "addition"
    ELSE IF Includes(name, "multiply") THEN "multiplication"
    ELSE "generic"

\* input[k], k counted from 0, of an input that is an array of numbers.
InputAt(input, k) == IF k + 1 <= Len(input.items) THEN input.items[k + 1] ELSE Undefined

\* What a category makes of an input that is an array of numbers.
Analytic(category, input) ==
    LET a == InputAt(input, 0)
        b == InputAt(input, 1)
    IN  CASE category = "parity" ->
               IF a.t = "number" THEN Bool(a.v % 2 = 0) ELSE Bool(FALSE)
          [] category = "addition" ->
               IF a.t = "number" /\ b.t = "number" THEN Num(a.v + b.v) ELSE NaN
          [] category = "multiplication" ->
               IF a.t = "number" /\ b.t = "number" THEN Num(a.v * b.v) ELSE NaN

\* C7: the actual value of a test case that was evaluated depends on the
\* category of the extracted function name and on the input alone: a parity
\* name gives input[0] mod 2 = 0, an addition name input[0] + input[1], a
\* multiplication name input[0] * input[1]; and passed is true exactly when
\* actual strictly equals expected.  With a function named isEven the cases
\* ([2], true) and ([3], false) give (passed, actual true) and (passed,
\* actual false).
C7_ActualFromNameAndInput ==
    \A c \in ResolvedRuns :
        LET category == NameCategory(extractFunctionName(calls[c].code,
                                                         calls[c].language))
            given == calls[c].testCases
            results == calls[c].result
        IN  /\ \A i \in 1..Len(given) :
                  ("error" \notin DOMAIN results[i] /\ category # "generic") =>
                     /\ results[i].actual = Analytic(category, given[i].input)
                     /\ results[i].passed =
                           (/\ results[i].actual.t # "nan"
                            /\ results[i].actual = given[i].expected)
            /\ (/\ calls[c].code = IsEvenJavaScript
                /\ calls[c].language = "javascript"
                /\ given = DefaultCases) =>
                  /\ results[1].passed /\ results[1].actual = Bool(TRUE)
                  /\ results[2].passed /\ results[2].actual = Bool(FALSE)

\* A call on the function named multiply has resolved with a case that
\* failed on the product of its two numbers and a case with one number.
C7_Witness ==
    \E c \in ResolvedRuns :
        /\ calls[c].code = MultiplyPython
        /\ calls[c].language = "python"
        /\ Len(calls[c].result) = 2
        /\ calls[c].result[1].actual = Num(6)
        /\ ~calls[c].result[1].passed
        /\ calls[c].result[2].actual = NaN

\* The languages extractFunctionName has a header pattern for.
PatternLanguages == {"python", "javascript", "typescript", "java", "cpp"}

\* C8: when no function name can be extracted from the code, because the
\* language has no header pattern or because its pattern matches nowhere,
\* the name is unknown and every test case reports passed = true and an
\* actual value equal to its expected value, whatever that value is.
C8_UnknownNameAlwaysPasses ==
    \A c \in ResolvedRuns :
        (\/ calls[c].language \notin PatternLanguages
         \/ ~Test(FunctionNamePattern(calls[c].language), calls[c].code)) =>
           /\ extractFunctionName(calls[c].code, calls[c].language) = "unknown"
           /\ \A i \in 1..Len(calls[c].testCases) :
                 /\ calls[c].result[i].passed
                 /\ calls[c].result[i].actual = calls[c].testCases[i].expected
                 /\ calls[c].result[i].expected = calls[c].testCases[i].expected

\* A call in a language without a pattern has resolved on code that holds a
\* JavaScript header named add, with a case whose expected value is not the
\* sum of its input.
C8_Witness ==
    \E c \in ResolvedRuns :
        /\ calls[c].language = "go"
        /\ calls[c].code = AddJavaScript
        /\ Len(calls[c].testCases) = 2
        /\ calls[c].testCases[1] = Case(Array(<<Num(3)>>), Bool(FALSE))
        /\ calls[c].result[1].passed

-----------------------------------------------------------------------------
(* SpecNames: one caller of runTestCases, names of several categories      *)

\* Python functions whose names hold the marks of several categories.
NamedCodes ==
    { "def even_sum(a, b):\n    return a", "def sum_even(a, b):\n    return a",
      "def add_multiply(a, b):\n    return a", "def multiply_isEven(a, b):\n    return a",
      "def run(a, b):\n    return a" }

NamedElements ==
    { Case(Array(<<Num(2), Num(3)>>), Num(5)),
      Case(Array(<<Num(2), Num(3)>>), Num(6)),
      Case(Array(<<Num(3), Num(2)>>), Bool(FALSE)) }

InitNames ==
    /\ code \in NamedCodes
    /\ testCases \in Lists(NamedElements, MaxCases)
    /\ calls = [c \in {1} |-> Idle]
    /\ detected = "none"
    /\ app = AppStart
    /\ now = 0

NextNames ==
    \/ \E c \in Slots, l \in {"python", "javascript"} : StartRunTests(c, l)
    \/ \E c \in Slots : SettleRunTests(c)
    \/ \E c \in Slots : Release(c)

SpecNames == InitNames /\ [][NextNames]_vars

-----------------------------------------------------------------------------
(* Properties of the classification of names, under SpecNames              *)

\* The categories in the order in which they are tried, and the marks of
\* each in a name.
CategoryOrder == <<"parity", "addition", "multiplication">>

CategoryMarks(category) ==
    CASE category = "parity" -> {"even", "Even"}
      [] category = "addition" -> {"add", "sum"}
      [] category = "multiplication" -> {"multiply"}

\* The categories of which the name holds a mark.
CategoriesOf(name) ==
    { j \in 1..Len(CategoryOrder) :
         \E mark \in CategoryMarks(CategoryOrder[j]) : Includes(name, mark) }

\* C19: a name that holds marks of several categories is evaluated in the
\* first of them in the order parity, addition, multiplication, a name that
\* holds none in the generic one, and every case of one call is evaluated
\* in the same category.
C19_FirstCategoryWins ==
    \A c \in ResolvedRuns :
        LET among == CategoriesOf(extractFunctionName(calls[c].code, calls[c].language))
            given == calls[c].testCases
            results == calls[c].result
        IN  \A i \in 1..Len(given) :
               /\ "error" \notin DOMAIN results[i]
               /\ results[i].actual =
                     IF among = {} THEN given[i].expected
                     ELSE Analytic(CategoryOrder[MinOf(among)], given[i].input)
               /\ results[i].passed = (results[i].actual = given[i].expected)

\* A call on a name that holds sum before even has resolved with two cases,
\* both evaluated as parity: the first fails though its expected value is
\* the sum, the second passes.
C19_Witness ==
    \E c \in ResolvedRuns :
        /\ extractFunctionName(calls[c].code, calls[c].language) = "sum_even"
        /\ calls[c].testCases =
              <<Case(Array(<<Num(2), Num(3)>>), Num(5)),
                Case(Array(<<Num(3), Num(2)>>), Bool(FALSE))>>
        /\ calls[c].result[1].actual = Bool(TRUE)
        /\ ~calls[c].result[1].passed
        /\ calls[c].result[2].passed

-----------------------------------------------------------------------------
(* SpecDetect: detectLanguage on texts of every language                   *)

DetectParts ==
    { " ", "\n", "hello", "def f(", "function g(", "x: 1", "#include <a>",
      "System.out.println", "using System", "fmt.Print", "fn main" }

InitDetect ==
    /\ code \in Texts(DetectParts, MaxParts)
    /\ testCases = <<>>
    /\ calls = [c \in {1} |-> Idle]
    /\ detected = "none"
    /\ app = AppStart
    /\ now = 0

NextDetect == Detect

SpecDetect == InitDetect /\ [][NextDetect]_vars

-----------------------------------------------------------------------------
(* Properties of detectLanguage, under SpecDetect                          *)

\* The signature sets behind a tag: typescript is told from javascript
\* after the one set of the two has matched.
SetsOf(tag) ==
    { k \in 1..Len(SignatureSets) :
         SignatureSets[k].language = (IF tag = "typescript" THEN "javascript" ELSE tag) }

IsBlank(text) == \A i \in 1..Len(text) : CharAt(text, i) \in {" ", "\t", "\n", "\r"}

\* C9: detectLanguage returns plaintext for the empty string, for text of
\* white space only and for text on which no signature matches; and it
\* returns another tag only when a signature of that language matches the
\* trimmed text.
C9_PlaintextUnlessSignature ==
    detected # "none" =>
       /\ IsBlank(code) => detected = "plaintext"
       /\ (\A k \in 1..Len(SignatureSets) : ~SignatureMatches(k, Trim(code)))
             => detected = "plaintext"
       /\ detected # "plaintext" =>
             \E k \in SetsOf(detected) : SignatureMatches(k, Trim(code))

\* A tag has been returned for text whose signature is anchored at the
\* start and stands after white space.
C9_Witness ==
    /\ detected = "python"
    /\ code # Trim(code)
    /\ StartsWith(Trim(code), "def f(")

\* The order in which the languages are tried.
DetectionOrder == <<"cpp", "python", "javascript", "java", "csharp", "go", "rust">>

\* A signature of the language matches the trimmed text.
HasSignature(language, text) ==
    \E k \in SetsOf(language) : SignatureMatches(k, Trim(text))

\* The languages of which some signature matches the text.
Candidates(text) ==
    { j \in 1..Len(DetectionOrder) : HasSignature(DetectionOrder[j], text) }

\* C18: of the languages whose signatures match a text, detectLanguage
\* returns the one that comes first in the order cpp, python,
\* javascript/typescript, java, csharp, go, rust, whichever of the later
\* ones match as well.
C18_EarliestLanguageWins ==
    (detected # "none" /\ Candidates(code) # {}) =>
       LET first == DetectionOrder[MinOf(Candidates(code))]
       IN  IF first = "javascript" THEN detected \in {"javascript", "typescript"}
           ELSE detected = first

\* A text with a signature of C++ and a signature of C# has been detected
\* as C++.
C18_Witness ==
    /\ detected = "cpp"
    /\ HasSignature("csharp", code)
    /\ Cardinality(Candidates(code)) = 2

-----------------------------------------------------------------------------
(* SpecOverlap: two callers whose calls overlap while the text changes     *)

OverlapCodes == { IsEvenPython, "total = 1" }
OverlapTargets == {"javascript", "go"}
OverlapLanguages == {"python", "go"}

InitOverlap ==
    /\ code \in OverlapCodes
    /\ testCases = DefaultCases
    /\ calls = [c \in {1, 2} |-> Idle]
    /\ detected = "none"
    /\ app = AppStart
    /\ now = 0

NextOverlap ==
    \/ \E text \in OverlapCodes : setOriginalCode(text)
    \/ \E c \in Slots, t \in OverlapTargets, m \in {"fix", "convert"} :
          StartConvert(c, "python", t, m)
    \/ \E c \in Slots : ResolveConvert(c)
    \/ \E c \in Slots, l \in OverlapLanguages : StartRunTests(c, l)
    \/ \E c \in Slots : SettleRunTests(c)
    \/ \E c \in Slots : Release(c)

SpecOverlap == InitOverlap /\ [][NextOverlap]_vars

-----------------------------------------------------------------------------
(* Properties of overlapping calls, under SpecOverlap                      *)

\* The arguments a call was made with.
Arguments(c) ==
    IF calls[c].op = "convertCode"
    THEN <<calls[c].op, calls[c].code, calls[c].sourceLanguage,
           calls[c].targetLanguage, calls[c].mode>>
    ELSE <<calls[c].op, calls[c].code, calls[c].language, calls[c].testCases>>

Settled == { c \in Slots : calls[c].pc \in {"resolved", "rejected"} }

-----------------------------------------------------------------------------
(* SpecHost: the host application, one conversion after another            *)

\* The texts typed into the editor: a Python snippet and a JavaScript
\* snippet, both of which the fixer changes, and white space.
HostPython == "def f(n): return n % 2 != 0"
HostJavaScript == "let x = y && true"
HostCodes == { HostPython, HostJavaScript, "  " }

InitHost ==
    /\ code = HostPython
    /\ testCases = DefaultCases
    /\ calls = [c \in {1} |-> Idle]
    /\ detected = "python"
    /\ app = AppStart
    /\ now = 0

NextHost ==
    \/ \E text \in HostCodes : setOriginalCode(text)
    \/ \E c \in Slots : handleConvert(c)
    \/ \E c \in Slots : ResolveConvert(c)
    \/ \E c \in Slots : handleConvertResumes(c)

SpecHost == InitHost /\ [][NextHost]_vars

-----------------------------------------------------------------------------
(* Properties of the history of conversions, under SpecHost                *)

\* The history holds at most ten conversions, the most recent first, none
\* of a blank text; the first of them made the converted code; and
\* isConverting is set exactly while a call is under way.
HistoryInOrder ==
    LET history == app.conversions
    IN  /\ Len(history) <= HistoryKept + 1
        /\ \A i \in 1..(Len(history) - 1) :
              history[i].timestamp > history[i + 1].timestamp
        /\ \A i \in 1..Len(history) : Trim(history[i].originalCode) # ""
        /\ history # <<>> => history[1].convertedCode = app.convertedCode
        /\ app.isConverting = (\E c \in Slots : calls[c].pc # "idle")

\* A call that has resolved is followed by the step that puts it in front
\* of the history, as it was made, and resets isConverting.
LastConversionFirst ==
    \A c \in Slots :
        (calls[c].pc = "resolved" /\ calls'[c].pc = "idle") =>
           /\ app'.conversions[1].originalCode = calls[c].code
           /\ app'.conversions[1].sourceLanguage = calls[c].sourceLanguage
           /\ app'.conversions[1].targetLanguage = calls[c].targetLanguage
           /\ app'.conversions[1].mode = calls[c].mode
           /\ app'.conversions[1].convertedCode = calls[c].result
           /\ SubSeq(app'.conversions, 2, Len(app'.conversions))
                 = SubSeq(app.conversions, 1,
                          MinOf({HistoryKept, Len(app.conversions)}))
           /\ ~app'.isConverting

\* C20: after any sequence of conversions the history holds at most ten
\* entries, the most recent first; its first entry is the conversion that
\* resolved last, with the text, the languages and the mode it was started
\* with; and isConverting is false again after every call.
C20_HistoryOfConversions == []HistoryInOrder /\ [][LastConversionFirst]_vars

\* The history is full and has dropped an entry, and its first entry was
\* made with another text and another source language than the application
\* holds now.
C20_Witness ==
    /\ Len(app.conversions) = HistoryKept + 1
    /\ now > HistoryKept + 1
    /\ ~app.isConverting
    /\ app.conversions[1].originalCode # code
    /\ app.conversions[1].sourceLanguage # app.sourceLanguage
    /\ app.conversions[1].originalCode # app.conversions[2].originalCode

====
